---- MODULE Spec2Model ----
(***************************************************************************)
(* GenRun: trend scoring, ranking and reconciliation pipeline.             *)
(*                                                                         *)
(*   app/services/trend_analyzer.py  calculate_trend_score, analyze_products*)
(*   app/scheduler.py                run_trend_detection, set_region        *)
(*   app/database.py                 the store operations                   *)
(*   app/services/discord_notifier.py the two notifications                 *)
(*   app/main.py                     the HTTP handlers                      *)
(*                                                                         *)
(* Prices, velocities and volumes are floats or ints in the program; every *)
(* bucket edge the code compares them with is an integer, so each real     *)
(* value falls in the same bucket as some integer and the model uses       *)
(* integers.  Times are whole days.                                        *)
(***************************************************************************)
EXTENDS Integers, Sequences, FiniteSets, TLC

VARIABLES
    sc_in,              \* scoring harness: the (product, trend_data) pair given to calculate_trend_score
    sc_out,             \* scoring harness: the components and the returned score, or NotScored
    an_in,              \* analysis harness: the listings given to analyze_products and what
                        \* the lookups and the enrichment calls will answer
    an_out,             \* analysis harness: what analyze_products returned and requested
    current_region,     \* scheduler.py: the global current_region
    webhook_url,        \* settings.discord_webhook_url is set (TRUE) or empty (FALSE)
    store,              \* table trending_products: a set of rows
    history,            \* table trend_history, in insertion order
    next_id,            \* the id the table's sequence hands to the next inserted product
    now,                \* the clock, in days
    pc,                 \* where the run holding the event loop is: "idle" when none is
    origin,             \* what started that run: "startup", "cron" or "manual"
    scraped_products,   \* run_trend_detection's local scraped_products
    trend_lookups,      \* what get_trend_data returned for each head product of the run
    trending_products,  \* run_trend_detection's local trending_products
    top_10,             \* run_trend_detection's local top_10
    hot_products,       \* run_trend_detection's local hot_products
    i,                  \* position of the storing loop in top_10
    stored_count,       \* run_trend_detection's local stored_count
    awaiting,           \* per origin, the runs suspended in the error notification's HTTP post
    runs,               \* runs started so far
    failures,           \* store calls that have failed so far
    history_before,     \* Len(history) when the run started storing
    store_before,       \* store when the run started storing
    last_op,            \* what the last pass of the storing loop did
    outcome,            \* how the last run to leave the event loop ended
    notice,             \* the last call a run made to the notifier, with its arguments
    pending,            \* the scan tasks trigger_scan has created that have not started yet
    response,           \* what the last GET /api/trends answered
    prev                \* top_10 and history_before of the last run that stored

score_vars == <<sc_in, sc_out, an_in, an_out>>

run_vars == <<current_region, webhook_url, store, history, next_id, now, pc, origin,
              scraped_products, trend_lookups, trending_products, top_10, hot_products,
              i, stored_count, awaiting, runs, failures, history_before, store_before,
              last_op, outcome, notice, pending, response, prev>>

vars == <<score_vars, run_vars>>

(***************************************************************************)
(* Optional values.  Python's None for an Optional[int] / Optional[float]  *)
(* field is the integer NONE; `if x:` is false for None and for 0.         *)
(***************************************************************************)
NONE == -1

Truthy(x) == x # NONE /\ x # 0

Min(a, b) == IF a < b THEN a ELSE b
Max(a, b) == IF a > b THEN a ELSE b

(***************************************************************************)
(* trend_data: None, or the dict get_trend_data returns.                   *)
(***************************************************************************)
NoTrend == [present |-> FALSE, has_data |-> FALSE, velocity |-> 0, current_volume |-> 0]

TrendDict(has, vel, vol) ==
    [present |-> TRUE, has_data |-> has, velocity |-> vel, current_volume |-> vol]

\* The fallback dict marked as looked-up data.
get_fallback_data_has_data(hash_val) ==
    TrendDict(TRUE, (hash_val % 30) - 10, 30 + (hash_val % 50))

\* google_trends.py _get_fallback_data: values derived from the keyword's character sum.
get_fallback_data(hash_val) ==
    TrendDict(FALSE, (hash_val % 30) - 10, 30 + (hash_val % 50))

\* Any dict counted as trend data, whatever its has_data says.
HasTrend_present_only(trend_data) == trend_data.present

\* `trend_data and trend_data.get('has_data')`
HasTrend(trend_data) == trend_data.present /\ trend_data.has_data

(***************************************************************************)
(* calculate_trend_score, component by component.                          *)
(***************************************************************************)
VelocityScore(velocity) ==
    IF velocity > 100 THEN 25
    ELSE IF velocity > 50 THEN 20
    ELSE IF velocity > 20 THEN 15
    ELSE IF velocity > 0 THEN 10
    ELSE 5

\* Each volume edge counted into the bucket above it: `>=` in place of `>`.
VolumeScore_edges_included(volume) ==
    IF volume >= 75 THEN 15
    ELSE IF volume >= 50 THEN 12
    ELSE IF volume >= 25 THEN 8
    ELSE IF volume >= 10 THEN 5
    ELSE 2

VolumeScore(volume) ==
    IF volume > 75 THEN 15
    ELSE IF volume > 50 THEN 12
    ELSE IF volume > 25 THEN 8
    ELSE IF volume > 10 THEN 5
    ELSE 2

\* A neutral credit of 10, the low end of the documented band, in place of 15.
InterestScore_neutral_10(trend_data) ==
    IF HasTrend(trend_data)
    THEN VelocityScore(trend_data.velocity) + VolumeScore(trend_data.current_volume)
    ELSE 10

InterestScore(trend_data) ==
    IF HasTrend(trend_data)
    THEN VelocityScore(trend_data.velocity) + VolumeScore(trend_data.current_volume)
    ELSE 15

\* The rank buckets credited the wrong way round: the worse the rank, the more points.
RankScore_worse_is_better(rank) ==
    IF Truthy(rank)
    THEN IF rank <= 10 THEN 15
         ELSE IF rank <= 25 THEN 20
         ELSE IF rank <= 50 THEN 25
         ELSE 30
    ELSE 20

RankScore(rank) ==
    IF Truthy(rank)
    THEN IF rank <= 10 THEN 30
         ELSE IF rank <= 25 THEN 25
         ELSE IF rank <= 50 THEN 20
         ELSE 15
    ELSE 20

PriceScore(price) ==
    IF Truthy(price)
    THEN IF 15 <= price /\ price <= 150
         THEN IF 25 <= price /\ price <= 75 THEN 20 ELSE 15
         ELSE IF (10 <= price /\ price < 15) \/ (150 < price /\ price <= 200)
              THEN 10
              ELSE 5
    ELSE 10

\* The competition credit left at its maximum whatever the volume.
CompetitionScore_always_low(trend_data) ==
    IF HasTrend(trend_data) THEN 10 ELSE 7

CompetitionScore(trend_data) ==
    IF HasTrend(trend_data)
    THEN LET volume == trend_data.current_volume IN
         IF volume < 30 THEN 10
         ELSE IF volume < 60 THEN 7
         ELSE IF volume < 85 THEN 4
         ELSE 2
    ELSE 7

\* The velocity itself added in place of its bucket, and the final clamp left out.
calculate_trend_score_raw_velocity(product, trend_data) ==
    (IF HasTrend(trend_data)
     THEN trend_data.velocity + VolumeScore(trend_data.current_volume)
     ELSE 15)
    + RankScore(product.rank) + PriceScore(product.price) + CompetitionScore(trend_data)

calculate_trend_score(product, trend_data) ==
    LET score == InterestScore(trend_data) + RankScore(product.rank)
                 + PriceScore(product.price) + CompetitionScore(trend_data)
    IN  Min(Max(score, 0), 100)

(***************************************************************************)
(* Scoring harness: calculate_trend_score applied to one input pair.       *)
(***************************************************************************)
ScoreRanks == {NONE, 0, 1, 10, 11, 25, 26, 50, 51, 60}

ScorePrices == {NONE, 0, 5, 9, 10, 14, 15, 24, 25, 30, 75, 76, 150, 151, 200, 201}

ScoreVelocities == {-50, 0, 1, 20, 21, 50, 51, 100, 101, 150}

ScoreVolumes == {0, 10, 11, 25, 26, 29, 30, 50, 51, 59, 60, 75, 76, 84, 85, 100}

ScoreHashes == {0, 644, 1029}

ScoreTrends ==
    {NoTrend}
    \cup {get_fallback_data(h) : h \in ScoreHashes}
    \cup {TrendDict(TRUE, v, c) : v \in ScoreVelocities, c \in ScoreVolumes}

NotScored == [interest |-> NONE, rank |-> NONE, price |-> NONE, comp |-> NONE, score |-> NONE]

ScoreInit ==
    /\ sc_in \in [product : [rank : ScoreRanks, price : ScorePrices], trend_data : ScoreTrends]
    /\ sc_out = NotScored

ScoreCall ==
    /\ sc_out = NotScored
    /\ sc_out' = [interest |-> InterestScore(sc_in.trend_data),
                  rank     |-> RankScore(sc_in.product.rank),
                  price    |-> PriceScore(sc_in.product.price),
                  comp     |-> CompetitionScore(sc_in.trend_data),
                  score    |-> calculate_trend_score(sc_in.product, sc_in.trend_data)]
    /\ UNCHANGED <<sc_in, an_in, an_out>>

(***************************************************************************)
(* The listings of the modelled runs: the best-seller pages as they stand, *)
(* in category order.  "Widget A" is listed in two categories; nothing in  *)
(* the scraper or the analyzer removes the second listing.                 *)
(***************************************************************************)
WidgetA ==
    [name |-> "Widget A", category |-> "Electronics", url |-> "/dp/A", price |-> 30, rank |-> 1]

WidgetB ==
    [name |-> "Widget B", category |-> "Electronics", url |-> "/dp/B", price |-> 5, rank |-> 60]

WidgetA_Home ==
    [name |-> "Widget A", category |-> "Home", url |-> "/dp/A/home", price |-> NONE, rank |-> 2]

Catalogue == <<WidgetA, WidgetB, WidgetA_Home>>

\* The subsequences of s: each element kept or dropped, the order kept.
RECURSIVE SubSequences(_)
SubSequences(s) ==
    IF s = <<>> THEN {<<>>}
    ELSE LET rest == SubSequences(Tail(s)) IN
         rest \cup {<<Head(s)>> \o r : r \in rest}

\* scrape_all_categories: every listing of the pages is extracted or missed (a blocked
\* category, an element the extractor gives up on); the result keeps the page order.
ScrapeResults == SubSequences(Catalogue)

\* What get_trend_data gives for a Widget.  _clean_keyword drops words of one or two
\* letters, so every listing of the catalogue is looked up as "widget" (character sum
\* 644) and a run's lookups all get the same answer: the fallback dict when Google
\* Trends is unavailable, else the looked-up summary.
KeywordHash == 644

RunTrends == {get_fallback_data(KeywordHash), TrendDict(TRUE, 120, 20)}

(***************************************************************************)
(* analyze_products                                                        *)
(***************************************************************************)
HEAD_SIZE == 15

TOP_N == 10

HOT_THRESHOLD == 70

NO_RANK == 999

RankKey(p) == IF Truthy(p.rank) THEN p.rank ELSE NO_RANK

\* sorted(): stable, so x goes behind every element whose key is not larger.
RECURSIVE InsertByRank(_, _)
InsertByRank(s, x) ==
    IF s = <<>> THEN <<x>>
    ELSE IF RankKey(Head(s)) <= RankKey(x)
         THEN <<Head(s)>> \o InsertByRank(Tail(s), x)
         ELSE <<x>> \o s

\* The listings left in the order the scraper gave them.
SortByRank_input_order(s) == s

RECURSIVE SortByRank(_)
SortByRank(s) ==
    IF s = <<>> THEN <<>>
    ELSE InsertByRank(SortByRank(SubSeq(s, 1, Len(s) - 1)), s[Len(s)])

\* list.sort(key=trend_score, reverse=True): stable, equal scores keep their order.
RECURSIVE InsertByScore(_, _)
InsertByScore(s, x) ==
    IF s = <<>> THEN <<x>>
    ELSE IF Head(s).trend_score >= x.trend_score
         THEN <<Head(s)>> \o InsertByScore(Tail(s), x)
         ELSE <<x>> \o s

RECURSIVE SortByScoreDesc(_)
SortByScoreDesc(s) ==
    IF s = <<>> THEN <<>>
    ELSE InsertByScore(SortByScoreDesc(SubSeq(s, 1, Len(s) - 1)), s[Len(s)])

\* models.py TrendingProduct as analyze_products builds it: id, first_seen_date and
\* last_updated are never given and stay None.
TrendingProduct(product, trend_score, search_volume, notes) ==
    [id              |-> NONE,
     product_name    |-> product.name,
     category        |-> product.category,
     source_url      |-> product.url,
     trend_score     |-> trend_score,
     search_volume   |-> search_volume,
     price_estimate  |-> product.price,
     first_seen_date |-> NONE,
     last_updated    |-> NONE,
     status          |-> "active",
     notes           |-> notes]

AI_THRESHOLD == 60

\* analyze_product_potential returning None: the analyzer is disabled, the model gave no
\* text, or the call raised (which the method catches).
NoInsight == ""

\* GeminiAnalyzer without an API key (the default of settings.gemini_api_key).
GeminiOff == [enabled |-> FALSE, insights |-> <<>>]

\* The notes text: its fixed part, the velocity printed in it, and the AI insight
\* appended to it (none when ai_notes is None).
HeadNotes(trend_data, ai_notes) ==
    IF trend_data.present
    THEN [text |-> "Velocity", velocity |-> trend_data.velocity, insight |-> ai_notes]
    ELSE [text |-> "Bestseller rank bonus", velocity |-> 0, insight |-> ai_notes]

TailNotes == [text |-> "Bestseller item", velocity |-> 0, insight |-> NoInsight]

\* products_for_trends = sorted_products[:15]
products_for_trends(products) ==
    SubSeq(SortByRank(products), 1, Min(HEAD_SIZE, Len(products)))

\* A lookup for every listing, the tail included.
trend_requests_for_all(products) ==
    [j \in 1..Len(products) |-> SortByRank(products)[j].name]

\* The calls analyze_products makes to get_trend_data, in order: one for each product of
\* products_for_trends, by its name.
trend_requests(products) ==
    [j \in 1..Len(products_for_trends(products)) |-> products_for_trends(products)[j].name]

\* The calls analyze_products makes to analyze_product_potential, in order: in the first
\* loop only, for a product whose score is at least 60, when the analyzer is enabled.
gemini_requests(products, lookups, gemini) ==
    LET head == products_for_trends(products)
        scored == [j \in 1..Len(head) |->
                     [name |-> head[j].name,
                      trend_score |-> calculate_trend_score(head[j], lookups[j])]]
        asked == SelectSeq(scored, LAMBDA p : p.trend_score >= AI_THRESHOLD /\ gemini.enabled)
    IN  [j \in 1..Len(asked) |-> asked[j].name]

\* lookups[j] is what get_trend_data returned for the j-th head product, and
\* gemini.insights[j] what analyze_product_potential returns when asked about it.
analyze_products(products, lookups, gemini) ==
    LET sorted_products == SortByRank(products)
        n == Len(sorted_products)
        k == Min(HEAD_SIZE, n)
        with_trends(j) ==
            LET product == sorted_products[j]
                trend_data == lookups[j]
                trend_score == calculate_trend_score(product, trend_data)
                ai_notes == IF trend_score >= AI_THRESHOLD /\ gemini.enabled
                            THEN gemini.insights[j]
                            ELSE NoInsight
            IN  TrendingProduct(product,
                                trend_score,
                                IF trend_data.present THEN trend_data.current_volume ELSE 0,
                                HeadNotes(trend_data, ai_notes))
        without_trends(j) ==
            LET product == sorted_products[j]
            IN  TrendingProduct(product, calculate_trend_score(product, NoTrend), 0, TailNotes)
    IN  SortByScoreDesc([j \in 1..n |-> IF j <= k THEN with_trends(j) ELSE without_trends(j)])

\* The hot filter applied to the first TOP_N products only.
get_hot_products_of_top(products, threshold) ==
    SelectSeq(SubSeq(products, 1, Min(TOP_N, Len(products))), LAMBDA p : p.trend_score >= threshold)

get_hot_products(products, threshold) ==
    SelectSeq(products, LAMBDA p : p.trend_score >= threshold)

\* The last TOP_N products in place of the first.
Top10_last(products) == SubSeq(products, Len(products) - Min(TOP_N, Len(products)) + 1, Len(products))

Top10(products) == SubSeq(products, 1, Min(TOP_N, Len(products)))

(***************************************************************************)
(* database.py: the store.  A row of trending_products has every column;   *)
(* a payload (model_dump) has the columns the client sends.                *)
(***************************************************************************)
Columns == {"id", "product_name", "category", "source_url", "trend_score", "search_volume",
            "price_estimate", "first_seen_date", "last_updated", "status", "notes"}

\* The Optional columns that analyze_products can leave None.
OptionalColumns == {"id", "search_volume", "price_estimate", "first_seen_date", "last_updated"}

IsNone(c, v) == c \in OptionalColumns /\ v = NONE

\* pydantic model_dump(exclude=..., exclude_none=True)
model_dump(product, exclude) ==
    [c \in {d \in DOMAIN product : d \notin exclude /\ ~IsNone(d, product[d])} |-> product[c]]

insert_payload(product) == model_dump(product, {"id"})

update_payload(product) == model_dump(product, {"id", "first_seen_date"})

\* The table on insert: the sequence gives the id, first_seen_date and last_updated
\* default to the time of the insert, a column that is not sent is NULL.
db_insert_row(data, id, t) ==
    [c \in Columns |->
        IF c = "id" THEN id
        ELSE IF c \in DOMAIN data THEN data[c]
        ELSE IF c \in {"first_seen_date", "last_updated"} THEN t
        ELSE NONE]

\* The table on update: the columns sent are overwritten, last_updated is set to the
\* time of the write, every other column is kept.
db_update_row(row, data, t) ==
    [c \in Columns |->
        IF c \in DOMAIN data THEN data[c]
        ELSE IF c = "last_updated" THEN t
        ELSE row[c]]

\* get_product_by_name: the rows the query returns.  The code takes response.data[0];
\* the query has no ORDER BY, so with several rows of one name any of them can come first.
get_product_by_name(table, name) == {r \in table : r.product_name = name}

\* The UPDATE without its `.eq('id', product_id)` filter: every row is overwritten.
update_trending_product_unfiltered(table, product_id, product, t) ==
    {db_update_row(r, update_payload(product), t) : r \in table}

update_trending_product(table, product_id, product, t) ==
    {IF r.id = product_id THEN db_update_row(r, update_payload(product), t) ELSE r : r \in table}

insert_trending_product(table, product, id, t) ==
    table \cup {db_insert_row(insert_payload(product), id, t)}

\* TrendHistory(product_id, trend_score, search_volume) inserted; recorded_at defaults to now.
TrendHistory(product_id, product, t) ==
    [product_id    |-> product_id,
     trend_score   |-> product.trend_score,
     search_volume |-> product.search_volume,
     recorded_at   |-> t]

ARCHIVE_DAYS == 30

ARCHIVE_SCORE == 50

\* `.lte('last_updated', cutoff)` in place of `.lt`: a record exactly `days` old goes too.
archive_old_products_lte(table, days, t) ==
    {IF r.last_updated <= t - days /\ r.trend_score < ARCHIVE_SCORE
     THEN [r EXCEPT !["status"] = "archived"]
     ELSE r : r \in table}

archive_old_products(table, days, t) ==
    {IF r.last_updated < t - days /\ r.trend_score < ARCHIVE_SCORE
     THEN [r EXCEPT !["status"] = "archived"]
     ELSE r : r \in table}

\* The rows a SELECT ordered by trend_score descending with LIMIT n can return: n rows
\* (all of them when there are fewer), no row left out scoring more than one returned;
\* rows of equal score come in any order.
RECURSIVE TopRows(_, _)
TopRows(rows, n) ==
    IF n = 0 \/ rows = {} THEN {<<>>}
    ELSE UNION {{<<r>> \o rest : rest \in TopRows(rows \ {r}, n - 1)} :
                  r \in {x \in rows : \A y \in rows : x.trend_score >= y.trend_score}}

\* The query without `.eq('status', 'active')`.
get_top_trending_products_any_status(table, limit, ok) ==
    IF ok THEN TopRows(table, limit) ELSE {<<>>}

\* get_top_trending_products: the possible results; [] when the query raises.
get_top_trending_products(table, limit, ok) ==
    IF ok THEN TopRows({r \in table : r.status = "active"}, limit) ELSE {<<>>}

(***************************************************************************)
(* discord_notifier.py                                                     *)
(***************************************************************************)
\* send_trend_summary up to the HTTP post: "not_configured" when the webhook URL is
\* empty; "error" when building the embed raises (products[0].last_updated.isoformat()
\* with last_updated None), which the method catches; else "post".
send_trend_summary(products, hot_count, configured) ==
    IF ~configured THEN "not_configured"
    ELSE IF products # <<>> /\ products[1].last_updated = NONE THEN "error"
    ELSE "post"

\* send_error_notification up to the HTTP post: "not_configured" when the webhook URL is
\* empty, else "post".
send_error_notification(error_message, configured) ==
    IF ~configured THEN "not_configured" ELSE "post"

(***************************************************************************)
(* scheduler.py and main.py: the runs.                                     *)
(*                                                                         *)
(* Everything run_trend_detection does between two HTTP posts is           *)
(* synchronous (requests, time.sleep, the Supabase client), so the run     *)
(* holds the event loop and no other handler or job runs meanwhile: while  *)
(* pc is not "idle" only the run itself steps.  A run gives the loop up    *)
(* only inside a notification's `await client.post`.                       *)
(*                                                                         *)
(* Each action takes the limits of the checked configuration: how many     *)
(* runs start, how many store calls fail, which pages the scraper meets,   *)
(* how many days lie between a run and the one before it, and whether the  *)
(* steps before the storing loop can raise (faults).                       *)
(***************************************************************************)
MaxRuns == 2

MaxFailures == 1

LongRuns == 3

\* Days between two runs of the ageing configuration: exactly the archival age, or one
\* more.
AgeingDays == {30, 31}

Origins == {"startup", "cron", "manual"}

NoRegion == ""

RegionArgs == {NoRegion, "US", "uk", "FR"}

\* str.upper()
Upper(region) ==
    IF region = "uk" THEN "UK" ELSE IF region = "us" THEN "US" ELSE region

ValidRegions == {"US", "UK"}

NoOp == [kind |-> "none", id |-> NONE, position |-> 0, history |-> FALSE]

NoNotice == [kind |-> "none", message |-> "", hot_count |-> 0, products |-> <<>>]

NoResponse == [kind |-> "none", limit |-> 0, ok |-> TRUE, products |-> <<>>]

NoPrev == [valid |-> FALSE, top_10 |-> <<>>, history_before |-> 0]

RunLocalsIdle ==
    /\ pc' = "idle"
    /\ origin' = "none"
    /\ scraped_products' = <<>>
    /\ trend_lookups' = <<>>
    /\ trending_products' = <<>>
    /\ top_10' = <<>>
    /\ hot_products' = <<>>
    /\ i' = 0
    /\ stored_count' = 0
    /\ history_before' = 0
    /\ store_before' = {}
    /\ last_op' = NoOp

\* The early return without the call to send_error_notification.
ErrorExit_without_notice(org, why) ==
    /\ outcome' = why
    /\ UNCHANGED <<awaiting, notice>>
    /\ RunLocalsIdle

\* send_error_notification(msg) then return: with a webhook URL the run is suspended
\* in the post, without one the method returns False at once.
ErrorExit(org, why) ==
    /\ awaiting' = IF send_error_notification(why, webhook_url) = "post"
                   THEN [awaiting EXCEPT ![org] = @ + 1]
                   ELSE awaiting
    /\ outcome' = why
    /\ notice' = [kind |-> "error", message |-> why, hot_count |-> 0, products |-> <<>>]
    /\ RunLocalsIdle

\* The handler at the run boundary, were it to let the exception go on to the caller.
ExceptionExit_propagates(org) ==
    /\ outcome' = "propagated"
    /\ UNCHANGED <<awaiting, notice>>
    /\ RunLocalsIdle

\* `except Exception as e` at the run boundary: send_error_notification(str(e)), and the
\* coroutine returns.
ExceptionExit(org) == ErrorExit(org, "exception")

\* `stored_count += 1` on every pass, whatever the write returned.
StoredCount_every_pass(count, written) == count + 1

\* `stored_count += 1` under `if updated:` / `if inserted:`.
StoredCount(count, written) == IF written THEN count + 1 ELSE count

\* The conversion loop (lines 69-82): a dict whose ScrapedProduct(...) raises is skipped,
\* the others keep their order.
Conversions(scraped_data, faults) ==
    IF faults THEN SubSequences(scraped_data) ELSE {scraped_data}

\* run_trend_detection from its first line to the storing loop (lines 41-104).  The
\* first statement of the try block, AmazonScraper(...), can raise (it builds a UserAgent
\* and a Session); that exception reaches the handler at the run boundary.
run_trend_detection(cfg, org, region) ==
    /\ pc = "idle"
    /\ runs < cfg.runs
    /\ runs' = runs + 1
    /\ \E elapsed \in cfg.days : now' = now + elapsed
    /\ current_region' = IF region # NoRegion THEN Upper(region) ELSE current_region
    /\ \E raised \in {FALSE, cfg.faults}, scraped_data \in cfg.scrapes :
         IF raised
         THEN ExceptionExit(org)
         ELSE IF scraped_data = <<>>
         THEN ErrorExit(org, "no_products")
         ELSE \E converted \in Conversions(scraped_data, cfg.faults), trend_data \in RunTrends :
                LET lookups == [j \in 1..Min(HEAD_SIZE, Len(converted)) |-> trend_data]
                    analysed == analyze_products(converted, lookups, GeminiOff)
                IN
                IF analysed = <<>>
                THEN ErrorExit(org, "no_analysis")
                ELSE /\ pc' = "store"
                     /\ origin' = org
                     /\ scraped_products' = converted
                     /\ trend_lookups' = lookups
                     /\ trending_products' = analysed
                     /\ top_10' = Top10(analysed)
                     /\ hot_products' = get_hot_products(analysed, HOT_THRESHOLD)
                     /\ i' = 1
                     /\ stored_count' = 0
                     /\ history_before' = Len(history)
                     /\ store_before' = store
                     /\ last_op' = NoOp
                     /\ UNCHANGED <<awaiting, outcome, notice>>
    /\ UNCHANGED <<webhook_url, store, history, next_id, failures, response, prev, score_vars>>

\* scheduler.start(): the 'date' job due at start-up.
StartupJob(cfg) ==
    /\ runs = 0
    /\ run_trend_detection(cfg, "startup", NoRegion)
    /\ UNCHANGED pending

\* scheduler.start(): the daily cron job; APScheduler runs one instance of a job at a time.
CronJob(cfg) ==
    /\ awaiting["cron"] = 0
    /\ run_trend_detection(cfg, "cron", NoRegion)
    /\ UNCHANGED pending

\* main.py trigger_scan: `region.upper() if region else current_region`, replaced by
\* current_region when it is not a valid region.
ScanRegion(region) ==
    LET requested == IF region # NoRegion THEN Upper(region) ELSE current_region
    IN  IF requested \notin ValidRegions THEN current_region ELSE requested

\* main.py trigger_scan when the task it creates takes its first step before anything
\* else runs on the event loop.
trigger_scan(cfg, region) ==
    /\ pending = <<>>
    /\ run_trend_detection(cfg, "manual", ScanRegion(region))
    /\ UNCHANGED pending

\* main.py trigger_scan, the handler alone: asyncio.create_task(run_trend_detection(
\* region=scan_region)) puts the task behind whatever is already due on the event loop.
\* `requested` keeps the handler's own argument beside the region handed to the task.
create_scan_task(cfg, region) ==
    /\ pc = "idle"
    /\ runs + Len(pending) < cfg.runs
    /\ pending' = Append(pending, [region |-> ScanRegion(region), requested |-> region])
    /\ UNCHANGED <<current_region, webhook_url, store, history, next_id, now, pc, origin,
                   scraped_products, trend_lookups, trending_products, top_10, hot_products,
                   i, stored_count, awaiting, runs, failures, history_before, store_before,
                   last_op, outcome, notice, response, prev, score_vars>>

\* The first step of the oldest created task: run_trend_detection(region=scan_region).
ScanTask(cfg) ==
    /\ pending # <<>>
    /\ run_trend_detection(cfg, "manual", Head(pending).region)
    /\ pending' = Tail(pending)

\* One pass of `for product in top_10` (lines 106-136).  Each of the three store calls
\* returns its result, or raises inside database.py and returns None.
StoreItem(cfg) ==
    /\ pc = "store"
    /\ i <= Len(top_10)
    /\ LET product == top_10[i] IN
       \E lookup_ok \in BOOLEAN, write_ok \in BOOLEAN, history_ok \in BOOLEAN :
         LET found == IF lookup_ok THEN get_product_by_name(store, product.product_name) ELSE {}
             failed == (IF lookup_ok THEN 0 ELSE 1) + (IF write_ok THEN 0 ELSE 1)
                       + (IF history_ok THEN 0 ELSE 1)
         IN
         /\ ~write_ok => history_ok
         /\ failures + failed <= cfg.failures
         /\ failures' = failures + failed
         /\ IF found # {}
            THEN \E existing \in found :
                   LET product_id == existing.id IN
                   /\ store' = IF write_ok
                               THEN update_trending_product(store, product_id, product, now)
                               ELSE store
                   /\ next_id' = next_id
                   /\ history' = IF write_ok /\ history_ok
                                 THEN Append(history, TrendHistory(product_id, product, now))
                                 ELSE history
                   /\ last_op' = [kind     |-> IF write_ok THEN "update" ELSE "update_failed",
                                  id       |-> product_id,
                                  position |-> i,
                                  history  |-> write_ok /\ history_ok]
            ELSE /\ store' = IF write_ok
                             THEN insert_trending_product(store, product, next_id, now)
                             ELSE store
                 /\ next_id' = IF write_ok THEN next_id + 1 ELSE next_id
                 /\ history' = IF write_ok /\ history_ok
                               THEN Append(history, TrendHistory(next_id, product, now))
                               ELSE history
                 /\ last_op' = [kind     |-> IF write_ok THEN "insert" ELSE "insert_failed",
                                id       |-> IF write_ok THEN next_id ELSE NONE,
                                position |-> i,
                                history  |-> write_ok /\ history_ok]
         /\ stored_count' = StoredCount(stored_count, write_ok)
    /\ i' = i + 1
    /\ UNCHANGED <<current_region, webhook_url, now, pc, origin, scraped_products,
                   trend_lookups, trending_products, top_10, hot_products, awaiting, runs,
                   history_before, store_before, outcome, notice, pending, response, prev,
                   score_vars>>

\* After the loop: the archival sweep, the summary notification, the return (lines 138-157).
FinishRun(cfg) ==
    /\ pc = "store"
    /\ i > Len(top_10)
    /\ \E archive_ok \in BOOLEAN :
         /\ ~archive_ok => failures < cfg.failures
         /\ failures' = IF archive_ok THEN failures ELSE failures + 1
         /\ store' = IF archive_ok
                     THEN archive_old_products(store, ARCHIVE_DAYS, now)
                     ELSE store
    /\ LET sent == send_trend_summary(top_10, Len(hot_products), webhook_url) IN
       /\ outcome' = sent
       /\ notice' = [kind |-> "summary", message |-> "", hot_count |-> Len(hot_products),
                     products |-> top_10]
       /\ awaiting' = IF sent = "post" THEN [awaiting EXCEPT ![origin] = @ + 1] ELSE awaiting
    /\ prev' = [valid |-> TRUE, top_10 |-> top_10, history_before |-> history_before]
    /\ RunLocalsIdle
    /\ UNCHANGED <<current_region, webhook_url, history, next_id, now, runs, pending,
                   response, score_vars>>

\* A notification's HTTP post completes and the suspended run returns.
PostDone(org) ==
    /\ pc = "idle"
    /\ awaiting[org] > 0
    /\ awaiting' = [awaiting EXCEPT ![org] = @ - 1]
    /\ UNCHANGED <<current_region, webhook_url, store, history, next_id, now, pc, origin,
                   scraped_products, trend_lookups, trending_products, top_10, hot_products,
                   i, stored_count, runs, failures, history_before, store_before, last_op,
                   outcome, notice, pending, response, prev,
                   score_vars>>

\* main.py set_region with scheduler.set_region
set_region(region) ==
    /\ pc = "idle"
    /\ current_region' = IF Upper(region) \in ValidRegions THEN Upper(region) ELSE current_region
    /\ UNCHANGED <<webhook_url, store, history, next_id, now, pc, origin,
                   scraped_products, trend_lookups, trending_products, top_10, hot_products,
                   i, stored_count, awaiting, runs, failures, history_before, store_before,
                   last_op, outcome, notice, pending, response, prev,
                   score_vars>>

\* main.py get_trends: GET /api/trends?limit=...; a handler runs only while no run holds
\* the event loop.
get_trends(limit) ==
    /\ pc = "idle"
    /\ \E ok \in BOOLEAN :
         \E products \in get_top_trending_products(store, limit, ok) :
           response' = [kind |-> "trends", limit |-> limit, ok |-> ok, products |-> products]
    /\ UNCHANGED <<current_region, webhook_url, store, history, next_id, now, pc, origin,
                   scraped_products, trend_lookups, trending_products, top_10, hot_products,
                   i, stored_count, awaiting, runs, failures, history_before, store_before,
                   last_op, outcome, notice, pending, prev, score_vars>>

\* The state after construction: an empty store, the webhook URL set (config.py makes
\* discord_webhook_url a required setting), region "US".
RunInit ==
    /\ current_region = "US"
    /\ webhook_url = TRUE
    /\ store = {}
    /\ history = <<>>
    /\ next_id = 1
    /\ now = 0
    /\ pc = "idle"
    /\ origin = "none"
    /\ scraped_products = <<>>
    /\ trend_lookups = <<>>
    /\ trending_products = <<>>
    /\ top_10 = <<>>
    /\ hot_products = <<>>
    /\ i = 0
    /\ stored_count = 0
    /\ awaiting = [o \in Origins |-> 0]
    /\ runs = 0
    /\ failures = 0
    /\ history_before = 0
    /\ store_before = {}
    /\ last_op = NoOp
    /\ outcome = "none"
    /\ notice = NoNotice
    /\ pending = <<>>
    /\ response = NoResponse
    /\ prev = NoPrev

ScoreIdle ==
    /\ sc_in = [product |-> [rank |-> NONE, price |-> NONE], trend_data |-> NoTrend]
    /\ sc_out = NotScored

NotAnalysed ==
    [done |-> FALSE, trending_products |-> <<>>, trend_requests |-> <<>>,
     gemini_requests |-> <<>>]

AnalysisIdle ==
    /\ an_in = [products |-> <<>>, trend_data |-> NoTrend, lookups |-> <<>>,
                gemini |-> GeminiOff, failed_lookup |-> 0, failed_insight |-> 0]
    /\ an_out = NotAnalysed

Init == RunInit /\ ScoreIdle /\ AnalysisIdle

(***************************************************************************)
(* Spec: one run a day, store calls that can fail.                         *)
(***************************************************************************)
Reconcile ==
    [runs |-> MaxRuns, failures |-> MaxFailures, scrapes |-> ScrapeResults, days |-> {1},
     faults |-> TRUE]

Next ==
    \/ StartupJob(Reconcile)
    \/ CronJob(Reconcile)
    \/ trigger_scan(Reconcile, NoRegion)
    \/ StoreItem(Reconcile)
    \/ FinishRun(Reconcile)
    \/ \E org \in Origins : PostDone(org)

Spec == Init /\ [][Next]_vars

(***************************************************************************)
(* SpecArchive: runs days apart, a store that answers every call.          *)
(***************************************************************************)
Ageing ==
    [runs |-> LongRuns, failures |-> 0, scrapes |-> ScrapeResults \ {<<>>}, days |-> AgeingDays,
     faults |-> FALSE]

NextArchive ==
    \/ StartupJob(Ageing)
    \/ CronJob(Ageing)
    \/ trigger_scan(Ageing, NoRegion)
    \/ StoreItem(Ageing)
    \/ FinishRun(Ageing)

SpecArchive == Init /\ [][NextArchive]_vars

(***************************************************************************)
(* SpecSweep: as SpecArchive, with MaxRuns runs.                           *)
(***************************************************************************)
Sweep ==
    [runs |-> MaxRuns, failures |-> 0, scrapes |-> ScrapeResults \ {<<>>}, days |-> AgeingDays,
     faults |-> FALSE]

NextSweep ==
    \/ StartupJob(Sweep)
    \/ CronJob(Sweep)
    \/ trigger_scan(Sweep, NoRegion)
    \/ StoreItem(Sweep)
    \/ FinishRun(Sweep)

SpecSweep == Init /\ [][NextSweep]_vars

(***************************************************************************)
(* SpecFaults: runs a day more than the archival age apart whose steps     *)
(* before the storing loop can fail: an empty scrape, listings that do not *)
(* convert, an exception; the store answers every call.                    *)
(***************************************************************************)
Faulty ==
    [runs |-> MaxRuns, failures |-> 0, scrapes |-> ScrapeResults, days |-> {ARCHIVE_DAYS + 1},
     faults |-> TRUE]

NextFaults ==
    \/ StartupJob(Faulty)
    \/ CronJob(Faulty)
    \/ trigger_scan(Faulty, NoRegion)
    \/ StoreItem(Faulty)
    \/ FinishRun(Faulty)
    \/ \E org \in Origins : PostDone(org)

SpecFaults == Init /\ [][NextFaults]_vars

(***************************************************************************)
(* SpecLapse: runs a day more than the archival age apart, store calls     *)
(* that can fail.                                                          *)
(***************************************************************************)
Lapse ==
    [runs |-> MaxRuns, failures |-> MaxFailures, scrapes |-> ScrapeResults \ {<<>>},
     days |-> {ARCHIVE_DAYS + 1}, faults |-> FALSE]

NextLapse ==
    \/ StartupJob(Lapse)
    \/ CronJob(Lapse)
    \/ trigger_scan(Lapse, NoRegion)
    \/ StoreItem(Lapse)
    \/ FinishRun(Lapse)

SpecLapse == Init /\ [][NextLapse]_vars

(***************************************************************************)
(* SpecAnalysis: one run over best-seller pages of up to MaxListings       *)
(* listings, a store that answers every call.  The listings of a page      *)
(* repeat a pattern of up to MaxPattern (rank, price) pairs; their names   *)
(* differ in the last letter only, so get_trend_data is asked for "widget" *)
(* every time.                                                             *)
(***************************************************************************)
MaxListings == 17

MaxPattern == 2

ListingNames ==
    <<"Widget A", "Widget B", "Widget C", "Widget D", "Widget E", "Widget F", "Widget G",
      "Widget H", "Widget I", "Widget J", "Widget K", "Widget L", "Widget M", "Widget N",
      "Widget O", "Widget P", "Widget Q", "Widget R", "Widget S", "Widget T">>

PageRanks == {NONE, 1, 5, 60}

PagePrices == {30, 5}

PagePatterns == UNION {[1..k -> [rank : PageRanks, price : PagePrices]] : k \in 1..MaxPattern}

PageLengths == {2, TOP_N, TOP_N + 1, HEAD_SIZE + 1, MaxListings}

PageOf(pattern, n) ==
    [j \in 1..n |->
        LET kind == pattern[((j - 1) % Len(pattern)) + 1] IN
        [name |-> ListingNames[j], category |-> "Electronics", url |-> "/dp",
         price |-> kind.price, rank |-> kind.rank]]

Pages == {PageOf(pattern, n) : pattern \in PagePatterns, n \in PageLengths}

Ranking ==
    [runs |-> 1, failures |-> 0, scrapes |-> Pages, days |-> {1}, faults |-> FALSE]

NextAnalysis ==
    \/ StartupJob(Ranking)
    \/ CronJob(Ranking)
    \/ trigger_scan(Ranking, NoRegion)
    \/ StoreItem(Ranking)
    \/ FinishRun(Ranking)

SpecAnalysis == Init /\ [][NextAnalysis]_vars

(***************************************************************************)
(* SpecEnrich: analyze_products on pages of up to MaxListings listings,    *)
(* with the analyzer enabled or not, every lookup and every enrichment     *)
(* call answering but at most one of each, which raises inside             *)
(* get_trend_data or inside analyze_product_potential.  A listing's rank   *)
(* is optional and can be any positive integer.                            *)
(***************************************************************************)
EnrichRanks == {NONE, 1, 1000}

EnrichPatterns == UNION {[1..k -> [rank : EnrichRanks, price : PagePrices]] : k \in 1..MaxPattern}

EnrichLengths == {2, HEAD_SIZE, MaxListings}

EnrichPages == {PageOf(pattern, n) : pattern \in EnrichPatterns, n \in EnrichLengths}

\* Positions of the head at which a call can raise; 0 when none does.
FailPositions == {0, 2, HEAD_SIZE}

\* get_trend_data for the j-th head product: the summary it looks up, or, when the
\* lookup raises, what its except branch returns: the fallback dict.
LookupsFor(products, trend_data, failed) ==
    [j \in 1..Len(products_for_trends(products)) |->
        IF j = failed THEN get_fallback_data(KeywordHash) ELSE trend_data]

\* analyze_product_potential for the j-th head product: the model's text, or None when
\* generate_content raises.
InsightsFor(products, failed) ==
    [j \in 1..Len(products_for_trends(products)) |->
        IF j = failed THEN NoInsight ELSE "insight"]

AnalysisInit ==
    /\ \E products \in EnrichPages, trend_data \in RunTrends, enabled \in BOOLEAN,
          failed_lookup \in FailPositions, failed_insight \in FailPositions :
         an_in = [products       |-> products,
                  trend_data     |-> trend_data,
                  lookups        |-> LookupsFor(products, trend_data, failed_lookup),
                  gemini         |-> [enabled  |-> enabled,
                                      insights |-> InsightsFor(products, failed_insight)],
                  failed_lookup  |-> failed_lookup,
                  failed_insight |-> failed_insight]
    /\ an_out = NotAnalysed

AnalysisCall ==
    /\ ~an_out.done
    /\ an_out' = [done              |-> TRUE,
                  trending_products |-> analyze_products(an_in.products, an_in.lookups,
                                                         an_in.gemini),
                  trend_requests    |-> trend_requests(an_in.products),
                  gemini_requests   |-> gemini_requests(an_in.products, an_in.lookups,
                                                        an_in.gemini)]
    /\ UNCHANGED <<sc_in, sc_out, an_in>>

InitEnrich == RunInit /\ ScoreIdle /\ AnalysisInit

NextEnrich == AnalysisCall /\ UNCHANGED run_vars

SpecEnrich == InitEnrich /\ [][NextEnrich]_vars

(***************************************************************************)
(* SpecQuery: runs a day more than the archival age apart, a store that    *)
(* answers every call of a run, and GET /api/trends between the runs, whose *)
(* query can fail.                                                         *)
(***************************************************************************)
Limits == {1, 2, TOP_N}

Querying ==
    [runs |-> MaxRuns, failures |-> 0, scrapes |-> ScrapeResults \ {<<>>},
     days |-> {ARCHIVE_DAYS + 1}, faults |-> FALSE]

NextQuery ==
    \/ \E limit \in Limits : get_trends(limit)
    \/ StartupJob(Querying)
    \/ CronJob(Querying)
    \/ trigger_scan(Querying, NoRegion)
    \/ StoreItem(Querying)
    \/ FinishRun(Querying)

SpecQuery == Init /\ [][NextQuery]_vars

(***************************************************************************)
(* SpecRegion: region requests, manual scans as created tasks, scheduled   *)
(* runs.  A scan task waits on the event loop behind the handlers that     *)
(* were already due when trigger_scan created it.                          *)
(***************************************************************************)
Regional ==
    [runs |-> MaxRuns, failures |-> 0, scrapes |-> {<<>>, <<WidgetA>>}, days |-> {1},
     faults |-> FALSE]

NextRegion ==
    \/ \E region \in RegionArgs \ {NoRegion} : set_region(region)
    \/ \E region \in RegionArgs : create_scan_task(Regional, region)
    \/ ScanTask(Regional)
    \/ StartupJob(Regional)
    \/ CronJob(Regional)
    \/ StoreItem(Regional)
    \/ FinishRun(Regional)
    \/ \E org \in Origins : PostDone(org)

SpecRegion == Init /\ [][NextRegion]_vars

(***************************************************************************)
(* SpecScore: calculate_trend_score on every input pair.                   *)
(***************************************************************************)
InitScore == ScoreInit /\ AnalysisIdle /\ RunInit

NextScore == ScoreCall /\ UNCHANGED run_vars

SpecScore == InitScore /\ [][NextScore]_vars

(***************************************************************************)
(* Properties                                                              *)
(***************************************************************************)
RowsNamed(table, name) == {r \in table : r.product_name = name}

IsStoreStep == pc = "store" /\ i' = i + 1

IsFinishStep == pc = "store" /\ pc' = "idle"

SumAwaiting == awaiting["startup"] + awaiting["cron"] + awaiting["manual"]

\* Runs that have started and not returned: the one holding the event loop and the
\* ones suspended in a post.
ActiveRuns == (IF pc # "idle" THEN 1 ELSE 0) + SumAwaiting

ScoreOf(products, name) ==
    {products[k].trend_score : k \in {j \in 1..Len(products) : products[j].product_name = name}}

Names(products) == [k \in 1..Len(products) |-> products[k].product_name]

\* C1: the store never holds two records with the same product_name.
C1_OneRecordPerName ==
    \A r1 \in store, r2 \in store : r1.product_name = r2.product_name => r1 = r2

\* C1 while every store call has answered: the same statement, which holds.
C1_OneRecordPerName_NoFailure == failures = 0 => C1_OneRecordPerName

\* C2: when a run that stored top_10 is followed by a run that stores the same top_10,
\* and no store call has failed, then at the end of the second run
\* every name of top_10 has exactly one record, exactly two history entries written by
\* the two runs, and the record's fields (all but the write time) are those it had
\* after the first run.
C2_ReconcileTwice ==
    [][(IsFinishStep /\ prev.valid /\ prev.top_10 = top_10 /\ failures' = 0)
       => \A k \in 1..Len(top_10) :
            LET rows == RowsNamed(store', top_10[k].product_name)
                ids == {r.id : r \in rows}
                written == {h \in (prev.history_before + 1)..Len(history') :
                              history'[h].product_id \in ids}
            IN  /\ Cardinality(rows) = 1
                /\ Cardinality(written) = 2
                /\ \A r \in rows : \E q \in store_before :
                     \A c \in Columns \ {"last_updated"} : q[c] = r[c]]_vars

\* C2, for a top_10 of distinct names: the same statement, which holds.
C2_ReconcileTwice_DistinctNames ==
    [][(IsFinishStep /\ prev.valid /\ prev.top_10 = top_10 /\ failures' = 0
        /\ \A k1, k2 \in 1..Len(top_10) :
             top_10[k1].product_name = top_10[k2].product_name => k1 = k2)
       => \A k \in 1..Len(top_10) :
            LET rows == RowsNamed(store', top_10[k].product_name)
                ids == {r.id : r \in rows}
                written == {h \in (prev.history_before + 1)..Len(history') :
                              history'[h].product_id \in ids}
            IN  /\ Cardinality(rows) = 1
                /\ Cardinality(written) = 2
                /\ \A r \in rows : \E q \in store_before :
                     \A c \in Columns \ {"last_updated"} : q[c] = r[c]]_vars

\* C3: a pass of the storing loop that updates an existing record leaves its id and
\* first_seen_date as they were, sets its trend_score to the item's, and appends a
\* history entry that carries that id and the item's score.
C3_UpdateAppendsHistory ==
    [][(IsStoreStep /\ last_op'.kind = "update")
       => LET item == top_10[i]
              old == {r \in store : r.id = last_op'.id}
              new == {r \in store' : r.id = last_op'.id}
          IN  /\ Cardinality(old) = 1
              /\ Cardinality(new) = 1
              /\ \A r \in old, q \in new :
                   /\ q.first_seen_date = r.first_seen_date
                   /\ q.trend_score = item.trend_score
              /\ history' = Append(history, [product_id    |-> last_op'.id,
                                             trend_score   |-> item.trend_score,
                                             search_volume |-> item.search_volume,
                                             recorded_at   |-> now])]_vars

\* C3 while the append call answers: the pass finds the record by the item's name, leaves
\* its id and first_seen_date as they were, sets its trend_score to the item's, adds and
\* removes no record, and the history entry it appends is the last of the history and
\* carries that id and the item's score.  This holds.
C3_UpdateKeepsIdentity ==
    [][(IsStoreStep /\ last_op'.kind = "update")
       => LET item == top_10[i]
              old == {r \in store : r.id = last_op'.id}
              new == {r \in store' : r.id = last_op'.id}
          IN  /\ Cardinality(old) = 1
              /\ Cardinality(new) = 1
              /\ Cardinality(store') = Cardinality(store)
              /\ \A r \in old : r.product_name = item.product_name
              /\ \A r \in old, q \in new :
                   /\ q.first_seen_date = r.first_seen_date
                   /\ q.product_name = r.product_name
                   /\ q.trend_score = item.trend_score
              /\ last_op'.history =>
                   history' = Append(history, [product_id    |-> last_op'.id,
                                               trend_score   |-> item.trend_score,
                                               search_volume |-> item.search_volume,
                                               recorded_at   |-> now])]_vars

\* C4: no step turns an archived record active again, and no step removes a record.
C4_ArchivalOneWay ==
    [][\A r \in store : \E q \in store' :
         q.id = r.id /\ (r.status = "archived" => q.status = "archived")]_vars

\* C5: a pass of the storing loop whose insert or update succeeded appends exactly one
\* history entry, for that product; no step changes or drops an entry already written;
\* and at the end of a run the entries written in it number stored_count.
C5_OneHistoryPerWrite ==
    [][/\ Len(history') >= Len(history)
       /\ SubSeq(history', 1, Len(history)) = history
       /\ (IsStoreStep /\ last_op'.kind \in {"insert", "update"})
            => /\ Len(history') = Len(history) + 1
               /\ history'[Len(history')].product_id = last_op'.id
       /\ IsFinishStep => Len(history') - history_before = stored_count]_vars

\* C6: at most one run has started and not yet returned.
C6_OneActiveRun == ActiveRuns <= 1

\* C7: a run that scored at least one item and finished reconciliation has put the
\* summary in the post to the configured webhook by the time it returns.
C7_SummaryPosted ==
    (webhook_url /\ outcome \in {"not_configured", "error", "post"}) => outcome = "post"

IsWidgetExample ==
    /\ pc = "store"
    /\ scraped_products = <<WidgetA, WidgetB>>
    /\ \A j \in DOMAIN trend_lookups : ~HasTrend(trend_lookups[j])

\* C8 with the documented totals: in the Widget example Widget A scores 65..67, Widget B 35..37, top_10 is
\* Widget A then Widget B, and no product is hot.
C8_WidgetExample_Documented ==
    IsWidgetExample =>
        /\ ScoreOf(trending_products, "Widget A") \subseteq 65..67
        /\ ScoreOf(trending_products, "Widget B") \subseteq 35..37
        /\ Names(top_10) = <<"Widget A", "Widget B">>
        /\ hot_products = <<>>

\* C8 with the totals the code gives: in the Widget example Widget A scores 72 (15 + 30 + 20 + 7), Widget B
\* scores 42 (15 + 15 + 5 + 7), top_10 is Widget A then Widget B, and Widget A alone is hot.
C8_WidgetExample ==
    IsWidgetExample =>
        /\ ScoreOf(trending_products, "Widget A") = {72}
        /\ ScoreOf(trending_products, "Widget B") = {42}
        /\ Names(top_10) = <<"Widget A", "Widget B">>
        /\ Names(hot_products) = <<"Widget A">>

\* C8 witness: the Widget example has been analysed and both of its items stored.
C8_Witness == IsWidgetExample /\ i = 3 /\ stored_count = 2

\* C9: calculate_trend_score returns a value in 0..100.
C9_ScoreInRange ==
    sc_out # NotScored => (0 <= sc_out.score /\ sc_out.score <= 100)

\* C9 witness: a call with looked-up interest has returned the largest sum the buckets give.
C9_Witness ==
    /\ sc_out # NotScored
    /\ HasTrend(sc_in.trend_data)
    /\ sc_out.score = 94

\* The price buckets over a present price.
PriceBucket(price) ==
    IF 25 <= price /\ price <= 75 THEN 20
    ELSE IF (15 <= price /\ price < 25) \/ (75 < price /\ price <= 150) THEN 15
    ELSE IF (10 <= price /\ price < 15) \/ (150 < price /\ price <= 200) THEN 10
    ELSE 5

\* C10: the price component is the bucket of any present price, 0 included (which
\* gives 5), and 10 only for a missing price.
C10_PriceComponent ==
    sc_out # NotScored =>
        sc_out.price = IF sc_in.product.price = NONE
                       THEN 10
                       ELSE PriceBucket(sc_in.product.price)

\* C10 for every price but 0: the same statement, which holds.
C10_PriceComponent_NonZero ==
    (sc_out # NotScored /\ sc_in.product.price # 0) =>
        sc_out.price = IF sc_in.product.price = NONE
                       THEN 10
                       ELSE PriceBucket(sc_in.product.price)

\* Position of the listing called name in the run's input.
InputPos(name) == CHOOSE j \in 1..Len(scraped_products) : scraped_products[j].name = name

\* The rank the listing called name was scraped with, 999 when it has none.
ListedRank(name) ==
    LET rank == scraped_products[InputPos(name)].rank IN
    IF rank = NONE \/ rank = 0 THEN 999 ELSE rank

TiedPairs ==
    {<<a, b>> \in (1..Len(trending_products)) \X (1..Len(trending_products)) :
        a < b /\ trending_products[a].trend_score = trending_products[b].trend_score}

\* C11 with ties in input order: the scored items are in descending order of trend_score
\* and two items of equal score stand in the order their listings had in the input.
C11_TiesInInputOrder ==
    pc = "store" =>
        /\ \A a, b \in 1..Len(trending_products) :
             a < b => trending_products[a].trend_score >= trending_products[b].trend_score
        /\ \A t \in TiedPairs :
             InputPos(trending_products[t[1]].product_name)
                < InputPos(trending_products[t[2]].product_name)

\* C11 with ties in rank order: the scored items are in descending order of trend_score,
\* two items of equal score stand in ascending order of rank (a missing rank last), and
\* two of equal score and equal rank in the order their listings had in the input.
C11_TiesInRankOrder ==
    pc = "store" =>
        /\ \A a, b \in 1..Len(trending_products) :
             a < b => trending_products[a].trend_score >= trending_products[b].trend_score
        /\ \A t \in TiedPairs :
             LET first == trending_products[t[1]].product_name
                 second == trending_products[t[2]].product_name
             IN  \/ ListedRank(first) < ListedRank(second)
                 \/ /\ ListedRank(first) = ListedRank(second)
                    /\ InputPos(first) < InputPos(second)

\* C11 witness: a run has scored two items alike whose listings came in the other order,
\* and two items alike of equal rank.
C11_Witness ==
    /\ pc = "store"
    /\ \E t \in TiedPairs :
         InputPos(trending_products[t[1]].product_name)
            > InputPos(trending_products[t[2]].product_name)
    /\ \E t \in TiedPairs :
         ListedRank(trending_products[t[1]].product_name)
            = ListedRank(trending_products[t[2]].product_name)

\* C12: top_10 is the first min(10, n) of the n scored items, its scores do not increase
\* along it, and no scored item left out of it scores strictly higher than one in it.
C12_TopTenIsPrefix ==
    pc = "store" =>
        LET n == Len(trending_products)
            m == IF n < 10 THEN n ELSE 10
        IN  /\ Len(top_10) = m
            /\ \A k \in 1..m : top_10[k] = trending_products[k]
            /\ \A a, b \in 1..m : a < b => top_10[a].trend_score >= top_10[b].trend_score
            /\ \A k \in 1..m, o \in (m + 1)..n :
                 trending_products[o].trend_score <= top_10[k].trend_score

\* C12 witness: more than ten items were scored, with different scores among them, and
\* an item left out scores as much as the last one taken.
C12_Witness ==
    /\ pc = "store"
    /\ Len(trending_products) > 10
    /\ trending_products[1].trend_score > trending_products[Len(trending_products)].trend_score
    /\ trending_products[11].trend_score = top_10[10].trend_score

\* The positions of the scored sequence whose trend_score is at least 70.
HotPositions == {k \in 1..Len(trending_products) : trending_products[k].trend_score >= 70}

\* C13: hot_products is exactly the items of the whole scored sequence with trend_score
\* >= 70, in their order, and the hot_count given to send_trend_summary is their number.
C13_HotSetOfAllScored ==
    /\ [](pc = "store" =>
            /\ Len(hot_products) = Cardinality(HotPositions)
            /\ \A k \in 1..Len(trending_products) :
                 (k \in HotPositions)
                   <=> (\E h \in 1..Len(hot_products) : hot_products[h] = trending_products[k])
            /\ \A h \in 1..Len(hot_products) : hot_products[h].trend_score >= 70)
    /\ [][IsFinishStep =>
            /\ notice'.kind = "summary"
            /\ notice'.hot_count = Cardinality(HotPositions)
            /\ notice'.products = top_10]_vars

\* C13 witness: a run has stored its ten products and is about to notify; more than ten
\* of its scored items are hot, so some hot item is not in top_10, and some are not hot.
C13_Witness ==
    /\ pc = "store"
    /\ i = 11
    /\ Len(hot_products) > 10
    /\ \E h \in 1..Len(hot_products) : \A k \in 1..Len(top_10) : hot_products[h] # top_10[k]
    /\ Len(hot_products) < Len(trending_products)

\* C14: a pass of the storing loop that inserts a record for an item adds exactly one
\* record, with status "active" and first_seen_date the time of the insert, and appends
\* a history entry that carries the new id and the item's trend_score and search_volume.
C14_InsertAppendsHistory ==
    [][(IsStoreStep /\ last_op'.kind = "insert")
       => LET item == top_10[i]
              added == store' \ store
          IN  /\ store \subseteq store'
              /\ Cardinality(added) = 1
              /\ \A r \in added :
                   r.id = last_op'.id /\ r.status = "active" /\ r.first_seen_date = now
              /\ history' = Append(history, [product_id    |-> last_op'.id,
                                             trend_score   |-> item.trend_score,
                                             search_volume |-> item.search_volume,
                                             recorded_at   |-> now])]_vars

\* C14 while the append call answers: a pass for an item whose name no record carries
\* takes the insert branch; when the insert answers, the store gains exactly one record,
\* with a new id, status "active", first_seen_date the time of the insert and the item's
\* name, category, url, score and volume, and no other record changes; the history entry
\* the pass appends is the last of the history and carries the new id and the item's
\* trend_score and search_volume.  This holds.
C14_InsertCreatesRecord ==
    [][IsStoreStep =>
         LET item == top_10[i] IN
         /\ RowsNamed(store, item.product_name) = {}
              => last_op'.kind \in {"insert", "insert_failed"}
         /\ last_op'.kind = "insert" =>
              LET added == store' \ store IN
              /\ store \subseteq store'
              /\ Cardinality(added) = 1
              /\ \A r \in added :
                   /\ r.id = last_op'.id
                   /\ \A q \in store : q.id # r.id
                   /\ r.status = "active"
                   /\ r.first_seen_date = now
                   /\ r.product_name = item.product_name
                   /\ r.category = item.category
                   /\ r.source_url = item.source_url
                   /\ r.trend_score = item.trend_score
                   /\ r.search_volume = item.search_volume
              /\ last_op'.history =>
                   history' = Append(history, [product_id    |-> last_op'.id,
                                               trend_score   |-> item.trend_score,
                                               search_volume |-> item.search_volume,
                                               recorded_at   |-> now])]_vars

C16_SweepArchivesStaleLow ==
    [][IsFinishStep =>
         /\ {q.id : q \in store'} = {r.id : r \in store}
         /\ \A r \in store : \E q \in store' :
              /\ q.id = r.id
              /\ \A c \in Columns \ {"status"} : q[c] = r[c]
              /\ q.status = IF r.last_updated < now - 30 /\ r.trend_score < 50
                            THEN "archived"
                            ELSE r.status]_vars

\* C16 witness: the sweep of the second run has archived a record that the run's top_10
\* does not name, 31 days old and scoring under 50, and left the records of the run
\* active.
C16_Witness ==
    /\ pc = "idle"
    /\ runs = 2
    /\ notice.kind = "summary"
    /\ \E r \in store :
         /\ r.status = "archived"
         /\ r.last_updated = now - 31
         /\ r.trend_score < 50
         /\ \A k \in 1..Len(prev.top_10) : prev.top_10[k].product_name # r.product_name
    /\ \E r \in store : r.status = "active" /\ r.last_updated = now

\* A run starts in this step.
IsStartStep == runs' = runs + 1

\* C17: a run enters the storing loop only with at least one scored item; a run that
\* acquired no listing, or none of whose listings was scored, ends in the step it starts
\* in, having called send_error_notification with its message, and the store, the
\* history and the count of failed store calls are as before: no lookup, insert,
\* update, history append or sweep was made, and no summary was sent.
C17_EmptyRunOnlyNotifies ==
    [][IsStartStep =>
         /\ pc' = "store" => (trending_products' # <<>> /\ top_10' # <<>> /\ notice' = notice)
         /\ pc' # "store" =>
              /\ pc' = "idle"
              /\ outcome' \in {"no_products", "no_analysis", "exception"}
              /\ notice'.kind = "error"
              /\ notice'.message = outcome'
              /\ SumAwaiting' = SumAwaiting + 1
              /\ store' = store
              /\ history' = history
              /\ next_id' = next_id
              /\ failures' = failures]_vars

\* C17 witness: the second run found no listing that could be scored and ended with the
\* error notification, and a stale low-scoring record that a sweep would have archived
\* is still active.
C17_Witness ==
    /\ runs = 2
    /\ pc = "idle"
    /\ outcome = "no_analysis"
    /\ notice.kind = "error"
    /\ \E r \in store :
         r.status = "active" /\ r.last_updated < now - ARCHIVE_DAYS /\ r.trend_score < ARCHIVE_SCORE

IsScored == sc_out # NotScored

\* C19: for the scored listing, every smaller positive rank earns a rank component at
\* least as large, price and trend data being the same; and with has_data true, every
\* larger velocity at the same current_volume earns an interest component at least as
\* large.
C19_Monotone ==
    IsScored =>
        /\ sc_in.product.rank > 0 =>
               \A r \in ScoreRanks :
                   (r > 0 /\ r < sc_in.product.rank) => RankScore(r) >= sc_out.rank
        /\ HasTrend(sc_in.trend_data) =>
               \A v \in ScoreVelocities :
                   v > sc_in.trend_data.velocity =>
                       InterestScore(TrendDict(TRUE, v, sc_in.trend_data.current_volume))
                           >= sc_out.interest

\* C19 witness: a scored listing of rank 26 with has_data true and velocity 20, which has
\* better ranks and larger velocities in other buckets to be compared with.
C19_Witness ==
    /\ IsScored
    /\ sc_in.product.rank = 26
    /\ HasTrend(sc_in.trend_data)
    /\ sc_in.trend_data.velocity = 20
    /\ sc_out.rank = 20
    /\ RankScore(1) > sc_out.rank
    /\ InterestScore(TrendDict(TRUE, 150, sc_in.trend_data.current_volume)) > sc_out.interest

\* C20: a listing scored with no trend data, or with a dict whose has_data is false, gets
\* the score the same listing gets with None: one interest credit within 10..15 and one
\* competition credit within 5..7, added to its rank and price components.
C20_MissingDataFallback ==
    (IsScored /\ ~(sc_in.trend_data.present /\ sc_in.trend_data.has_data)) =>
        /\ sc_out.interest = InterestScore(NoTrend)
        /\ sc_out.interest \in 10..15
        /\ sc_out.comp = CompetitionScore(NoTrend)
        /\ sc_out.comp \in 5..7
        /\ sc_out.score = calculate_trend_score(sc_in.product, NoTrend)
        /\ sc_out.score = sc_out.interest + sc_out.rank + sc_out.price + sc_out.comp

\* C20 witness: a scored listing whose trend data is the fallback dict (has_data false)
\* carrying a velocity and a volume that would have scored differently.
C20_Witness ==
    /\ IsScored
    /\ sc_in.trend_data.present
    /\ ~sc_in.trend_data.has_data
    /\ sc_in.trend_data.current_volume >= 30
    /\ sc_in.product.rank = NONE
    /\ sc_in.product.price = NONE
    /\ sc_out.score = 15 + 20 + 10 + 7

(***************************************************************************)
(* C27, C29: the buckets of calculate_trend_score and their sum.           *)
(***************************************************************************)
\* The velocity, volume and competition buckets as documented.
VelocityBucket(velocity) ==
    IF velocity > 100 THEN 25
    ELSE IF velocity > 50 THEN 20
    ELSE IF velocity > 20 THEN 15
    ELSE IF velocity > 0 THEN 10
    ELSE 5

VolumeBucket(volume) ==
    IF volume > 75 THEN 15
    ELSE IF volume > 50 THEN 12
    ELSE IF volume > 25 THEN 8
    ELSE IF volume > 10 THEN 5
    ELSE 2

CompetitionBucket(volume) ==
    IF volume < 30 THEN 10
    ELSE IF volume < 60 THEN 7
    ELSE IF volume < 85 THEN 4
    ELSE 2

\* C27: with trend data present and has_data true, the interest component is the
\* velocity bucket plus the volume bucket, and the competition component is the
\* competition bucket of current_volume.
C27_InterestAndCompetitionBuckets ==
    (IsScored /\ sc_in.trend_data.present /\ sc_in.trend_data.has_data) =>
        /\ sc_out.interest = VelocityBucket(sc_in.trend_data.velocity)
                              + VolumeBucket(sc_in.trend_data.current_volume)
        /\ sc_out.comp = CompetitionBucket(sc_in.trend_data.current_volume)

\* C27 witness: a scored listing with has_data true whose velocity (50) and volume (75)
\* sit on a bucket edge, the volume between two competition edges.
C27_Witness ==
    /\ IsScored
    /\ sc_in.trend_data.present
    /\ sc_in.trend_data.has_data
    /\ sc_in.trend_data.velocity = 50
    /\ sc_in.trend_data.current_volume = 75
    /\ sc_out.interest = 15 + 12
    /\ sc_out.comp = 4

ComponentSum == sc_out.interest + sc_out.rank + sc_out.price + sc_out.comp

\* C29: the returned score is the sum of the four components, unclamped; the sum lies
\* in 37..94, and in 42..72 without trend data or with has_data false; 100 is never
\* returned.
C29_ClampNeverActs ==
    IsScored =>
        /\ sc_out.score = ComponentSum
        /\ ComponentSum \in 37..94
        /\ ~(sc_in.trend_data.present /\ sc_in.trend_data.has_data) => ComponentSum \in 42..72
        /\ sc_out.score # 100

\* C29 witness: the volume that earns the top volume bucket (76) earns only 4 for
\* competition, which with the best velocity, rank and price gives the sum 94.
C29_Witness ==
    /\ IsScored
    /\ sc_in.trend_data.present
    /\ sc_in.trend_data.has_data
    /\ sc_in.trend_data.current_volume = 76
    /\ sc_out.interest = 40
    /\ sc_out.comp = 4
    /\ sc_out.rank = 30
    /\ sc_out.price = 20
    /\ ComponentSum = 94

C23_ScoredNamesDistinct ==
    /\ \A k1, k2 \in 1..Len(trending_products) :
          trending_products[k1].product_name = trending_products[k2].product_name => k1 = k2
    /\ \A k1, k2 \in 1..Len(top_10) :
          top_10[k1].product_name = top_10[k2].product_name => k1 = k2

(***************************************************************************)
(* C28: the frame of the storing loop.                                     *)
(***************************************************************************)
NameSet(products) == {products[k].product_name : k \in 1..Len(products)}

\* C28: a pass of the storing loop changes or adds only records named as the item it
\* stores, so every record whose name is not in top_10 goes through the loop with all
\* its fields unchanged; the sweep at the end of the run changes nothing of such a
\* record but its status, and steps outside a run leave the store alone.
C28_MergeTouchesOnlyTopNames ==
    /\ [][IsStoreStep =>
            /\ \A r \in store : r.product_name # top_10[i].product_name => r \in store'
            /\ \A q \in store' \ store : q.product_name = top_10[i].product_name]_vars
    /\ [](pc = "store" =>
            \A r \in store_before :
                r.product_name \notin NameSet(top_10) => r \in store)
    /\ [][IsFinishStep =>
            \A r \in store : r.product_name \notin NameSet(top_10) =>
                (r \in store' \/ [r EXCEPT !["status"] = "archived"] \in store')]_vars
    /\ [][(pc = "idle" /\ pc' = "idle") => store' = store]_vars

\* C28 witness: a second run has stored its whole top_10 and swept; the record of
\* Widget B, which was not in that top_10, has every field it had but the status, now
\* archived, while a record of that top_10 was rewritten in the run.
C28_Witness ==
    /\ pc = "idle"
    /\ runs = 2
    /\ prev.valid
    /\ "Widget B" \notin NameSet(prev.top_10)
    /\ \E r \in store :
          /\ r.product_name = "Widget B"
          /\ r.status = "archived"
          /\ r.last_updated < now
          /\ r.first_seen_date = r.last_updated
    /\ \E q \in store :
          /\ q.product_name \in NameSet(prev.top_10)
          /\ q.last_updated = now
          /\ q.first_seen_date < now

(***************************************************************************)
(* C30: the global region.                                                 *)
(***************************************************************************)
IsScanTaskStep == IsStartStep /\ pending # <<>> /\ pending' = Tail(pending)

IsValidRegionArg(region) == region # NoRegion /\ Upper(region) \in ValidRegions

\* C30: current_region is always "US" or "UK"; a set_region request or a scan requested
\* with an invalid region leaves it as it is; a scan requested with a valid region sets
\* it when the scan starts, and a scheduled run uses it unchanged.
C30_RegionOnlyChangedByValidRequests ==
    /\ [](current_region \in ValidRegions)
    /\ [][\A region \in RegionArgs \ {NoRegion} :
            (set_region(region) /\ ~IsValidRegionArg(region))
                => current_region' = current_region]_vars
    /\ [][(IsScanTaskStep /\ Head(pending).requested # NoRegion
            /\ ~IsValidRegionArg(Head(pending).requested))
                => current_region' = current_region]_vars
    /\ [][(IsScanTaskStep /\ IsValidRegionArg(Head(pending).requested))
                => current_region' = Upper(Head(pending).requested)]_vars
    /\ [][(IsStartStep /\ pending' = pending) => current_region' = current_region]_vars

\* The parts of C30 that hold under every interleaving: the region is always valid, an
\* invalid set_region request changes nothing, a valid explicit scan sets the region.
C30_RegionAlwaysValid ==
    /\ [](current_region \in ValidRegions)
    /\ [](\A k \in 1..Len(pending) : pending[k].region \in ValidRegions)
    /\ [][\A region \in RegionArgs \ {NoRegion} :
            (set_region(region) /\ ~IsValidRegionArg(region))
                => current_region' = current_region]_vars
    /\ [][(IsScanTaskStep /\ IsValidRegionArg(Head(pending).requested))
                => current_region' = Upper(Head(pending).requested)]_vars
    /\ [][(IsStartStep /\ pending' = pending) => current_region' = current_region]_vars

(***************************************************************************)
(* C21: GET /api/trends.                                                   *)
(***************************************************************************)
\* C21: an answer of get_top_trending_products(limit) holds at most `limit` records, all
\* of them records of the store with status "active", in non-increasing order of
\* trend_score; it is empty when the query failed; and the call changes no record and
\* no history entry.
C21_GetTopReadOnly ==
    /\ [](response.kind = "trends" =>
            /\ Len(response.products) <= response.limit
            /\ \A k \in 1..Len(response.products) : response.products[k].status = "active"
            /\ \A a, b \in 1..Len(response.products) :
                  a < b => response.products[a].trend_score >= response.products[b].trend_score
            /\ ~response.ok => response.products = <<>>)
    /\ [][response' # response =>
            /\ store' = store
            /\ history' = history
            /\ \A k \in 1..Len(response'.products) : response'.products[k] \in store]_vars

\* C21 witness: the store holds an active record and one the sweep archived, ten were
\* asked for, the query answered, and the answer is the active record alone.
C21_Witness ==
    /\ response.kind = "trends"
    /\ response.ok
    /\ response.limit = TOP_N
    /\ Len(response.products) = 1
    /\ response.products[1] \in store
    /\ \E r \in store : r.status = "archived"
    /\ Cardinality(store) = 2

(***************************************************************************)
(* C24, C25, C26: lookups and enrichment in analyze_products.              *)
(***************************************************************************)
Listing(name) == CHOOSE p \in {an_in.products[j] : j \in 1..Len(an_in.products)} : p.name = name

ListingNameSet == {an_in.products[j].name : j \in 1..Len(an_in.products)}

LookedUp == {an_out.trend_requests[j] : j \in 1..Len(an_out.trend_requests)}

Enriched == {an_out.gemini_requests[j] : j \in 1..Len(an_out.gemini_requests)}

ScoredAs(name) ==
    {an_out.trending_products[k] :
        k \in {j \in 1..Len(an_out.trending_products) :
                  an_out.trending_products[j].product_name = name}}

\* p comes strictly before q in ascending rank order with the unranked last.
RankedBefore(p, q) ==
    \/ p.rank # NONE /\ q.rank = NONE
    \/ p.rank # NONE /\ q.rank # NONE /\ p.rank < q.rank

\* p comes strictly before q in ascending rank order with the unranked counted as 999.
SentinelBefore(p, q) ==
    (IF p.rank = NONE THEN 999 ELSE p.rank) < (IF q.rank = NONE THEN 999 ELSE q.rank)

Undisturbed ==
    analyze_products(an_in.products,
                     LookupsFor(an_in.products, an_in.trend_data, 0),
                     [enabled |-> an_in.gemini.enabled, insights |-> InsightsFor(an_in.products, 0)])

ItemsNamed(products, name) ==
    {products[k] : k \in {j \in 1..Len(products) : products[j].product_name = name}}

HeadNames == LET head == products_for_trends(an_in.products) IN [j \in 1..Len(head) |-> head[j].name]

FailedLookupNames ==
    IF an_in.failed_lookup \in 1..Len(HeadNames) THEN {HeadNames[an_in.failed_lookup]} ELSE {}

FailedInsightNames ==
    IF an_in.failed_insight \in 1..Len(HeadNames) THEN {HeadNames[an_in.failed_insight]} ELSE {}

C26_EnrichmentAtSixty ==
    (an_out.done /\ an_in.gemini.enabled) =>
        /\ Cardinality(Enriched) = Len(an_out.gemini_requests)
        /\ \A name \in ListingNameSet : \A p \in ScoredAs(name) :
              /\ (name \in Enriched) <=> (p.trend_score >= 60)
              /\ name \notin Enriched => p.notes.insight = NoInsight

\* C26 for the head items alone (the first 15 by rank): the same statement, which holds;
\* no tail item is ever asked about.
C26_EnrichmentAtSixty_Head ==
    (an_out.done /\ an_in.gemini.enabled) =>
        /\ Cardinality(Enriched) = Len(an_out.gemini_requests)
        /\ Enriched \subseteq LookedUp
        /\ \A name \in LookedUp : \A p \in ScoredAs(name) :
              (name \in Enriched) <=> (p.trend_score >= 60)
        /\ \A name \in ListingNameSet : \A p \in ScoredAs(name) :
              name \notin Enriched => p.notes.insight = NoInsight

====
